---- MODULE Spec2Model ----
(***************************************************************************)
(* Model of "Media Transfer Software/server.js": an HTTPS file-upload      *)
(* service (POST /upload, GET /files, GET /health) on top of express,      *)
(* multer's disk storage and fs.promises.                                  *)
(*                                                                         *)
(* Strings are sequences of one-character strings, so that extname,        *)
(* basename, endsWith, startsWith and the timestamp sanitising are         *)
(* computed and not assumed.  Sizes are counted in KiB (the byte counts of *)
(* the source divided by 1024) to stay inside TLC's integers; a file is a  *)
(* sequence of chunks of ChunkKiB each, and a chunk <<r, i>> is the i-th   *)
(* chunk of the body of upload request r.                                  *)
(***************************************************************************)
EXTENDS Integers, Sequences, FiniteSets, TLC

\* ---------------------------------------------------------------- bounds
MaxUploads == 2

MaxListings == 1

MaxTime == 2

MaxChunks == 3

\* ------------------------------------------------------ program constants
PORT == 3443

\* limits.fileSize, in KiB
fileSize == 10000 * 1024

\* path.join(__dirname, 'uploads')
uploadsDir == <<"u", "p">>

\* granularity of one write: a body of two chunks has exactly the limit's
\* size, a longer one is over the limit
ChunkKiB == fileSize \div 2

ZeroChunk == <<0, 0>>

Uploads == 1..MaxUploads

Listings == 1..MaxListings

\* ---------------------------------------------------------------- strings
EndsWith(s, suffix) ==
  /\ Len(suffix) <= Len(s)
  /\ SubSeq(s, Len(s) - Len(suffix) + 1, Len(s)) = suffix

StartsWith(s, prefix) ==
  /\ Len(prefix) <= Len(s)
  /\ SubSeq(s, 1, Len(prefix)) = prefix

LastDot(s) ==
  LET dots == {i \in 1..Len(s) : s[i] = "."}
  IN  IF dots = {} THEN 0 ELSE CHOOSE i \in dots : \A j \in dots : j <= i

\* path.extname: from the last dot to the end; empty when there is no dot
\* or the only dot is the first character
extname(s) ==
  IF LastDot(s) <= 1 THEN <<>> ELSE SubSeq(s, LastDot(s), Len(s))

\* path.basename(s, ext): s without the suffix ext
basename(s, ext) ==
  IF ext /= <<>> /\ ext /= s /\ EndsWith(s, ext)
  THEN SubSeq(s, 1, Len(s) - Len(ext))
  ELSE s

\* Date.prototype.toISOString at clock value t, reduced to one time field
\* and one millisecond field: "T<t>:0.<t>Z"
toISOString(t) == <<"T", ToString(t), ":", "0", ".", ToString(t), "Z">>

\* .replace(/[:.]/g, '-')
replaceColonDot(s) ==
  [i \in 1..Len(s) |-> IF s[i] \in {":", "."} THEN "-" ELSE s[i]]

\* path.join(dir, name)
join(dir, name) == dir \o <<"/">> \o name

\* ------------------------------------------------------------ JS helpers
\* obj.key of JavaScript, as the set of its values: empty (undefined) when
\* the object has no such property
Prop(obj, key) == IF key \in DOMAIN obj THEN {obj[key]} ELSE {}

\* `${Math.round(x / 1024 / 1024)}` for a byte count x, held here in KiB:
\* undefined / 1024 / 1024 is NaN, and Math.round rounds half up
roundMB(x) ==
  IF x = {} THEN "NaN"
  ELSE ToString((2 * (CHOOSE v \in x : TRUE) + 1024) \div 2048)

\* a || b for strings: the empty string and undefined are both falsy
OrElse(a, b) == IF a = <<>> THEN b ELSE a

\* ---------------------------------------------------------------- inputs
JsName == <<"a", ".", "j", "s">>

PlainName == <<"a">>

TextMime == <<"t", "e", "x", "t", "/", "p">>

ImageMime == <<"i", "m", "g", "/", "p">>

\* the upload requests with a file part that clients send: the kind
\* ("single": one file part, "many": a second file part follows), the
\* original name, the content type, req.body.path (<<>> when absent) and
\* the length of the body in chunks
UploadRequests ==
  { [kind |-> "single", originalname |-> PlainName, mimetype |-> ImageMime,
     bodyPath |-> <<>>, total |-> n] : n \in 1..MaxChunks }
  \cup
  { [kind |-> "single", originalname |-> JsName, mimetype |-> ImageMime,
     bodyPath |-> <<>>, total |-> 1],
    [kind |-> "single", originalname |-> PlainName, mimetype |-> TextMime,
     bodyPath |-> <<"d", "/", "a">>, total |-> 1],
    [kind |-> "many", originalname |-> PlainName, mimetype |-> ImageMime,
     bodyPath |-> <<>>, total |-> 1] }

\* the body of upload request r: total chunks, each tagged with r
Content(r, total) == [i \in 1..total |-> <<r, i>>]

\* ----------------------------------------------------------------- state
VARIABLES
  proc,        \* startHttpsServer / process: "readKey", "readCert",
               \* "createServer", "binding", "serving", "exited"
  keyRead,     \* outcome of reading ./private.key: "pending", "ok", "failed"
  certRead,    \* outcome of reading ./public.crt
  serverTls,   \* TRUE once https.createServer built the listener
  listenPort,  \* the port of the bound listening socket, 0 when none
  exitCode,    \* -1 while the process runs
  dirState,    \* fs.mkdir(uploadsDir): "pending", "exists", "failed"
  dir,         \* uploads directory: file name -> inode
  inodes,      \* inode -> [data, mtime]; an inode is named by its creator
  now,         \* the clock new Date() reads
  up,          \* upload request -> record
  ls,          \* listing request -> record
  health,      \* the last GET /health response, <<>> when none
  wlog         \* history: opens and completed writes of uploads, in order

vars == <<proc, keyRead, certRead, serverTls, listenPort, exitCode, dirState,
          dir, inodes, now, up, ls, health, wlog>>

procVars == <<proc, keyRead, certRead, serverTls, listenPort, exitCode>>

fsVars == <<dirState, dir, inodes>>

NoInode == [data |-> <<>>, mtime |-> 0]

UpIdle ==
  [st |-> "idle", kind |-> "none", originalname |-> <<>>, mimetype |-> <<>>,
   bodyPath |-> <<>>, total |-> 0, ts |-> 0, filename |-> <<>>,
   fd |-> 0, written |-> 0, err |-> <<>>, threw |-> FALSE,
   info |-> <<>>, preview |-> "none", resp |-> <<>>]

LsIdle ==
  [st |-> "idle", names |-> <<>>, results |-> <<>>, order |-> <<>>,
   seen |-> {}, quiet |-> FALSE, resp |-> <<>>]

Init ==
  /\ proc = "readKey"
  /\ keyRead = "pending"
  /\ certRead = "pending"
  /\ serverTls = FALSE
  /\ listenPort = 0
  /\ exitCode = -1
  /\ dirState = "pending"
  /\ dir = <<>>
  /\ inodes = [i \in Uploads |-> NoInode]
  /\ now = 1
  /\ up = [r \in Uploads |-> UpIdle]
  /\ ls = [l \in Listings |-> LsIdle]
  /\ health = <<>>
  /\ wlog = <<>>

\* ------------------------------------------------ startup, lines 160-186
\* key: await fs.readFile('./private.key'); a rejection lands in the catch
ReadKey(ok) ==
  /\ proc = "readKey"
  /\ IF ok
     THEN /\ keyRead' = "ok"
          /\ proc' = "readCert"
          /\ UNCHANGED exitCode
     ELSE /\ keyRead' = "failed"
          /\ proc' = "exited"
          /\ exitCode' = 1
  /\ UNCHANGED <<certRead, serverTls, listenPort, fsVars, now, up, ls,
                 health, wlog>>

\* a startup that goes on to build the listener without the certificate
afterCertReadAnyway(ok) == "createServer"

\* where startHttpsServer goes after the certificate read
afterCertRead(ok) == IF ok THEN "createServer" ELSE "exited"

\* cert: await fs.readFile('./public.crt')
ReadCert(ok) ==
  /\ proc = "readCert"
  /\ certRead' = IF ok THEN "ok" ELSE "failed"
  /\ proc' = afterCertRead(ok)
  /\ exitCode' = IF proc' = "exited" THEN 1 ELSE exitCode
  /\ UNCHANGED <<keyRead, serverTls, listenPort, fsVars, now, up, ls,
                 health, wlog>>

\* https.createServer(httpsOptions, app) and server.listen(PORT, ...):
\* createServer throws on material that is readable but not valid PEM
CreateServer(valid) ==
  /\ proc = "createServer"
  /\ IF valid
     THEN /\ serverTls' = TRUE
          /\ proc' = "binding"
          /\ UNCHANGED exitCode
     ELSE /\ proc' = "exited"
          /\ exitCode' = 1
          /\ UNCHANGED serverTls
  /\ UNCHANGED <<keyRead, certRead, listenPort, fsVars, now, up, ls,
                 health, wlog>>

\* the 'listening' callback of server.listen: the socket is bound
Listening ==
  /\ proc = "binding"
  /\ proc' = "serving"
  /\ listenPort' = PORT
  /\ UNCHANGED <<keyRead, certRead, serverTls, exitCode, fsVars, now, up,
                 ls, health, wlog>>

\* process.on('SIGINT'): process.exit(0); the socket and the requests in
\* the process's memory go with the process, the files stay
Sigint ==
  /\ proc /= "exited"
  /\ proc' = "exited"
  /\ exitCode' = 0
  /\ listenPort' = 0
  /\ up' = [r \in Uploads |-> UpIdle]
  /\ ls' = [l \in Listings |-> LsIdle]
  /\ health' = <<>>
  /\ wlog' = <<>>
  /\ UNCHANGED <<keyRead, certRead, serverTls, fsVars, now>>

\* fs.mkdir(uploadsDir, {recursive: true}).catch(console.error), line 14:
\* not awaited, so it completes at any time, and a failure is only logged
Mkdir(ok) ==
  /\ proc /= "exited"
  /\ dirState = "pending"
  /\ dirState' = IF ok THEN "exists" ELSE "failed"
  /\ UNCHANGED <<procVars, dir, inodes, now, up, ls, health, wlog>>

\* the clock advances
Tick ==
  /\ proc /= "exited"
  /\ now < MaxTime
  /\ now' = now + 1
  /\ UNCHANGED <<procVars, fsVars, up, ls, health, wlog>>

\* ------------------------------------------------ storage, lines 17-36
\* a file name that leaves the timestamp out
filenameNoTimestamp(originalname, t) == originalname

\* storage.filename: `${name}_${timestamp}${ext}`
filename(originalname, t) ==
  LET timestamp == replaceColonDot(toISOString(t))
      ext == extname(originalname)
      name == basename(originalname, ext)
  IN  name \o <<"_">> \o timestamp \o ext

\* an open that does not truncate (flags 'r+')
openDataKeep(old) == old

\* the data of a file just opened by fs.createWriteStream (flags 'w':
\* created or truncated)
openData(old) == <<>>

\* a write of one chunk at the stream's own file offset pos (each stream has
\* its own descriptor); a gap left by another opener's truncation reads as
\* zeros
writeAt(data, pos, chunk) ==
  IF pos <= Len(data)
  THEN [data EXCEPT ![pos] = chunk]
  ELSE data \o [i \in 1..(pos - Len(data) - 1) |-> ZeroChunk] \o <<chunk>>

\* fs.unlink(path): the name goes, an open descriptor keeps its inode
unlink(d, name) == [n \in (DOMAIN d) \ {name} |-> d[n]]

\* limits.fileSize: the body is over the limit
overLimit(kib) == kib > fileSize

\* multer's MulterError(code, field): name, message, code and field; it
\* carries no limit property
MulterError(code) ==
  [name |-> "MulterError", code |-> code,
   message |-> CASE code = "LIMIT_FILE_SIZE" -> "File too large"
                 [] code = "LIMIT_FILE_COUNT" -> "Too many files"
                 [] OTHER -> "Unexpected field"]

\* an Error that is not multer's own
PlainError(code, message) ==
  [name |-> "Error", code |-> code, message |-> message]

\* ------------------------------------------- POST /upload, lines 40-116
\* an error branch without the LIMIT_FILE_SIZE case
errorResponseAll400(err) ==
  [status |-> 400,
   body |-> [success |-> FALSE,
             error |-> "Upload error",
             details |-> err.message]]

\* lines 44-61
errorResponse(err) ==
  IF err.code = "LIMIT_FILE_SIZE"
  THEN [status |-> 413,
        body |-> [success |-> FALSE,
                  error |-> "File too large",
                  details |-> <<"File size exceeds the limit of ",
                                roundMB(Prop(err, "limit")), "MB">>,
                  maxSize |-> "1GB"]]
  ELSE [status |-> 400,
        body |-> [success |-> FALSE,
                  error |-> "Upload error",
                  details |-> err.message]]

\* lines 64-69
noFileResponse ==
  [status |-> 400,
   body |-> [success |-> FALSE, error |-> "No file uploaded"]]

\* a record whose size is the rounded KB figure of the log line
fileInfoSizeKB(file, bodyPath, t) ==
  [originalName |-> file.originalname,
   savedAs |-> file.filename,
   size |-> file.size \div 1024,
   mimeType |-> file.mimetype,
   path |-> OrElse(bodyPath, file.originalname),
   uploadTime |-> toISOString(t),
   savedPath |-> file.path]

\* lines 74-82
fileInfo(file, bodyPath, t) ==
  [originalName |-> file.originalname,
   savedAs |-> file.filename,
   size |-> file.size,
   mimeType |-> file.mimetype,
   path |-> OrElse(bodyPath, file.originalname),
   uploadTime |-> toISOString(t),
   savedPath |-> file.path]

\* lines 87-91
wantsPreview(file) ==
  \/ StartsWith(file.mimetype, <<"t", "e", "x", "t", "/">>)
  \/ EndsWith(file.originalname, <<".", "j", "s", "o", "n">>)
  \/ EndsWith(file.originalname, <<".", "j", "s">>)
  \/ EndsWith(file.originalname, <<".", "h", "t", "m", "l">>)
  \/ EndsWith(file.originalname, <<".", "c", "s", "s">>)

\* lines 101-105
successResponse(info) ==
  [status |-> 200,
   body |-> [success |-> TRUE,
             message |-> "File uploaded successfully",
             file |-> info]]

\* lines 107-114
internalErrorResponse(error) ==
  [status |-> 500,
   body |-> [success |-> FALSE,
             error |-> "Internal server error",
             details |-> error.message]]

\* a preview read whose rejection reaches the outer catch
afterPreviewRethrow(info, readOk) ==
  IF readOk THEN successResponse(info)
  ELSE internalErrorResponse([message |-> "ENOENT: no such file or directory"])

\* lines 92-105: the preview read is awaited inside its own try/catch, and
\* res.json follows whether it resolved or rejected
afterPreview(info, readOk) == successResponse(info)

\* req.file as multer's disk storage fills it in
reqFile(u) ==
  [originalname |-> u.originalname,
   filename |-> u.filename,
   size |-> u.written * ChunkKiB,
   mimetype |-> u.mimetype,
   path |-> join(uploadsDir, u.filename)]

\* upload requests are numbered in the order they arrive
arrives(r) ==
  /\ up[r].st = "idle"
  /\ IF r = 1 THEN TRUE ELSE up[r - 1].st /= "idle"

\* res.status(...).json(...): the response is sent and the request is over
respond(r, response) ==
  [up EXCEPT ![r].st = "done", ![r].resp = Append(@, response)]

\* a request without a file part (or not multipart at all): multer calls
\* back with no error and no req.file
UploadNoFile(r) ==
  /\ proc = "serving"
  /\ arrives(r)
  /\ up' = respond(r, noFileResponse)
  /\ UNCHANGED <<procVars, fsVars, now, ls, health, wlog>>

\* a multipart body the parser rejects before any file part
UploadMalformed(r) ==
  /\ proc = "serving"
  /\ arrives(r)
  /\ LET err == PlainError("", "Multipart: Boundary not found")
     IN  up' = [respond(r, errorResponse(err)) EXCEPT
                  ![r].kind = "malformed", ![r].err = <<err>>]
  /\ UNCHANGED <<procVars, fsVars, now, ls, health, wlog>>

\* the file part arrives: storage.filename names the destination and the
\* disk storage opens it for writing; kind "many" is a body that carries a
\* second file part after this one
UploadStart(r, req) ==
  /\ proc = "serving"
  /\ arrives(r)
  /\ LET name == filename(req.originalname, now)
         u == [up[r] EXCEPT !.kind = req.kind,
                            !.originalname = req.originalname,
                            !.mimetype = req.mimetype,
                            !.bodyPath = req.bodyPath,
                            !.total = req.total, !.ts = now,
                            !.filename = name]
     IN  IF dirState /= "exists"
         THEN \* the open fails: ENOENT, passed to the callback as err
              LET err == PlainError("ENOENT", "ENOENT: no such file or directory")
              IN  /\ up' = [up EXCEPT ![r] =
                              [u EXCEPT !.st = "done", !.err = <<err>>,
                                        !.resp = <<errorResponse(err)>>]]
                  /\ UNCHANGED <<dir, inodes, wlog>>
         ELSE LET ino == IF name \in DOMAIN dir THEN dir[name] ELSE r
              IN  /\ dir' = IF name \in DOMAIN dir THEN dir
                            ELSE (name :> r) @@ dir
                  /\ inodes' = [inodes EXCEPT ![ino] =
                                  [data |-> openData(inodes[ino].data),
                                   mtime |-> now]]
                  /\ up' = [up EXCEPT ![r] =
                              [u EXCEPT !.st = "writing", !.fd = ino]]
                  /\ wlog' = Append(wlog, <<"open", r>>)
  /\ UNCHANGED <<procVars, dirState, now, ls, health>>

\* one more chunk of the body is within the limit and is written
WriteChunk(r) ==
  /\ proc = "serving"
  /\ up[r].st = "writing"
  /\ up[r].written < up[r].total
  /\ ~overLimit((up[r].written + 1) * ChunkKiB)
  /\ LET pos == up[r].written + 1
     IN  /\ inodes' = [inodes EXCEPT ![up[r].fd] =
                         [data |-> writeAt(@.data, pos, <<r, pos>>),
                          mtime |-> now]]
         /\ up' = [up EXCEPT ![r].written = pos]
         /\ wlog' = IF pos = up[r].total
                    THEN Append(wlog, <<"wdone", r>>) ELSE wlog
  /\ UNCHANGED <<procVars, dirState, dir, now, ls, health>>

\* the next chunk crosses limits.fileSize: the parser emits 'limit', multer
\* removes the stored file and calls back with LIMIT_FILE_SIZE
LimitAbort(r) ==
  /\ proc = "serving"
  /\ up[r].st = "writing"
  /\ up[r].written < up[r].total
  /\ overLimit((up[r].written + 1) * ChunkKiB)
  /\ dir' = unlink(dir, up[r].filename)
  /\ LET err == MulterError("LIMIT_FILE_SIZE")
     IN  up' = [respond(r, errorResponse(err)) EXCEPT ![r].err = <<err>>]
  /\ UNCHANGED <<procVars, dirState, inodes, now, ls, health, wlog>>

\* limits.files = 1: the second file part is refused, multer removes the
\* first file and calls back with LIMIT_FILE_COUNT
TooManyAbort(r) ==
  /\ proc = "serving"
  /\ up[r].st = "writing"
  /\ up[r].kind = "many"
  /\ up[r].written = up[r].total
  /\ dir' = unlink(dir, up[r].filename)
  /\ LET err == MulterError("LIMIT_FILE_COUNT")
     IN  up' = [respond(r, errorResponse(err)) EXCEPT ![r].err = <<err>>]
  /\ UNCHANGED <<procVars, dirState, inodes, now, ls, health, wlog>>

\* the write stream finished: multer calls back without error, lines 63-105.
\* threw: an exception raised inside the try block while the record is built
UploadFinish(r, threw) ==
  /\ proc = "serving"
  /\ up[r].st = "writing"
  /\ up[r].kind = "single"
  /\ up[r].written = up[r].total
  /\ LET file == reqFile(up[r])
         info == fileInfo(file, up[r].bodyPath, now)
     IN  IF threw
         THEN up' = [respond(r, internalErrorResponse(
                                  [message |-> "unexpected"]))
                       EXCEPT ![r].threw = TRUE]
         ELSE IF wantsPreview(file)
         THEN up' = [up EXCEPT ![r].st = "preview", ![r].info = <<info>>,
                               ![r].preview = "pending"]
         ELSE up' = [respond(r, successResponse(info))
                       EXCEPT ![r].info = <<info>>]
  /\ UNCHANGED <<procVars, fsVars, now, ls, health, wlog>>

\* await fs.readFile(req.file.path, 'utf8') settles, lines 92-105: it
\* rejects when the file is gone or on an I/O error (ioOk = FALSE)
PreviewDone(r, ioOk) ==
  /\ proc = "serving"
  /\ up[r].st = "preview"
  /\ LET readOk == ioOk /\ up[r].filename \in DOMAIN dir
     IN  up' = [respond(r, afterPreview(up[r].info[1], readOk))
                  EXCEPT ![r].preview = IF readOk THEN "ok" ELSE "failed"]
  /\ UNCHANGED <<procVars, fsVars, now, ls, health, wlog>>

\* --------------------------------------------- GET /files, lines 119-147
\* fs.readdir: the names in the directory, in any enumeration order
readdir(d) ==
  LET n == Cardinality(DOMAIN d)
  IN  {s \in [1..n -> DOMAIN d] : \A i, j \in 1..n : s[i] = s[j] => i = j}

\* an entry whose size is the link count instead of stats.size
statEntryNlink(name) ==
  [name |-> name,
   size |-> 1,
   modified |-> inodes[dir[name]].mtime,
   path |-> join(uploadsDir, name)]

\* lines 124-131: one entry from fs.stat of the name
statEntry(name) ==
  [name |-> name,
   size |-> Len(inodes[dir[name]].data) * ChunkKiB,
   modified |-> inodes[dir[name]].mtime,
   path |-> join(uploadsDir, name)]

\* results pushed to an array as each stat settles
pushAsSettled(results, order) ==
  [k \in 1..Len(order) |-> results[order[k]][1]]

\* Promise.all: the fulfilled values, by the position of their promise,
\* whatever the order in which the promises settled
promiseAll(results, order) == [i \in 1..Len(results) |-> results[i][1]]

\* lines 135-138
listResponse(fileDetails) ==
  [status |-> 200, body |-> [success |-> TRUE, files |-> fileDetails]]

\* lines 139-146
listErrorResponse(error) ==
  [status |-> 500,
   body |-> [success |-> FALSE,
             error |-> "Could not list files",
             details |-> error.message]]

answered200(r) ==
  /\ up[r].st = "done"
  /\ up[r].resp[1].status = 200

\* the request arrives and readdir settles; every stat is then issued.
\* seen and quiet are history: the uploads already answered 200, and whether
\* every upload ever started is among them
ListBegin(l) ==
  /\ proc = "serving"
  /\ ls[l].st = "idle"
  /\ IF l = 1 THEN TRUE ELSE ls[l - 1].st /= "idle"
  /\ LET seen == {r \in Uploads : answered200(r)}
         quiet == \A r \in Uploads : up[r].st = "idle" \/ r \in seen
     IN  IF dirState /= "exists"
         THEN ls' = [ls EXCEPT ![l] =
                       [@ EXCEPT !.st = "done", !.seen = seen,
                                 !.quiet = quiet,
                                 !.resp = <<listErrorResponse(PlainError(
                                   "ENOENT",
                                   "ENOENT: no such file or directory"))>>]]
         ELSE \E names \in readdir(dir) :
                ls' = [ls EXCEPT ![l] =
                         [@ EXCEPT
                            !.st = IF names = <<>> THEN "done" ELSE "statting",
                            !.names = names,
                            !.results = [i \in 1..Len(names) |-> <<>>],
                            !.seen = seen,
                            !.quiet = quiet,
                            !.resp = IF names = <<>>
                                     THEN <<listResponse(<<>>)>> ELSE <<>>]]
  /\ UNCHANGED <<procVars, fsVars, now, up, health, wlog>>

\* the stat of the i-th name settles; the last one to fulfil resolves
\* Promise.all and the response is sent, a rejection sends the 500
StatDone(l, i) ==
  /\ proc = "serving"
  /\ ls[l].st = "statting"
  /\ i \in 1..Len(ls[l].names)
  /\ ls[l].results[i] = <<>>
  /\ IF ls[l].names[i] \in DOMAIN dir
     THEN LET results == [ls[l].results EXCEPT
                            ![i] = <<statEntry(ls[l].names[i])>>]
              order == Append(ls[l].order, i)
              all == \A j \in 1..Len(results) : results[j] /= <<>>
          IN  ls' = [ls EXCEPT ![l] =
                       [@ EXCEPT
                          !.results = results,
                          !.order = order,
                          !.st = IF all THEN "done" ELSE "statting",
                          !.resp = IF all
                                   THEN <<listResponse(
                                            promiseAll(results, order))>>
                                   ELSE <<>>]]
     ELSE ls' = [ls EXCEPT ![l] =
                   [@ EXCEPT !.st = "done",
                             !.resp = <<listErrorResponse(PlainError(
                               "ENOENT",
                               "ENOENT: no such file or directory"))>>]]
  /\ UNCHANGED <<procVars, fsVars, now, up, health, wlog>>

\* -------------------------------------------- GET /health, lines 150-157
Health ==
  /\ proc = "serving"
  /\ health' = <<[status |-> 200,
                  body |-> [success |-> TRUE,
                            message |-> "Server is running",
                            timestamp |-> toISOString(now),
                            uploadsDirectory |-> uploadsDir]]>>
  /\ UNCHANGED <<procVars, fsVars, now, up, ls, wlog>>

\* ------------------------------------------------------- specification
Next ==
  \/ \E ok \in BOOLEAN : ReadKey(ok)
  \/ \E ok \in BOOLEAN : ReadCert(ok)
  \/ \E valid \in BOOLEAN : CreateServer(valid)
  \/ Listening
  \/ Sigint
  \/ \E ok \in BOOLEAN : Mkdir(ok)
  \/ Tick
  \/ \E r \in Uploads : UploadNoFile(r)
  \/ \E r \in Uploads : UploadMalformed(r)
  \/ \E r \in Uploads, req \in UploadRequests : UploadStart(r, req)
  \/ \E r \in Uploads : WriteChunk(r)
  \/ \E r \in Uploads : LimitAbort(r)
  \/ \E r \in Uploads : TooManyAbort(r)
  \/ \E r \in Uploads, threw \in BOOLEAN : UploadFinish(r, threw)
  \/ \E r \in Uploads, ioOk \in BOOLEAN : PreviewDone(r, ioOk)
  \/ \E l \in Listings : ListBegin(l)
  \/ \E l \in Listings, i \in 1..MaxUploads : StatDone(l, i)
  \/ Health

Spec == Init /\ [][Next]_vars

\* --------------------------------------------------------------- properties
started == {r \in Uploads : up[r].st /= "idle"}

\* the uploads that stored a file under the name
sharers(name) == {r \in started : up[r].filename = name}

\* the responses sent to uploads and listings
failureBodies ==
  {up[r].resp[1].body : r \in {q \in Uploads : up[q].resp /= <<>>
                                   /\ up[q].resp[1].status >= 400}}
  \cup
  {ls[l].resp[1].body : l \in {k \in Listings : ls[k].resp /= <<>>
                                   /\ ls[k].resp[1].status >= 400}}

listed200(l) ==
  /\ ls[l].st = "done"
  /\ ls[l].resp[1].status = 200

\* the listing l was asked for after every upload so far had answered 200,
\* and no upload has arrived since
afterUploads(l) ==
  /\ listed200(l)
  /\ ls[l].quiet
  /\ started = ls[l].seen

entryOf(l, r) ==
  {i \in 1..Len(ls[l].resp[1].body.files) :
     ls[l].resp[1].body.files[i].name = up[r].filename}

\* C1 as stated: after N uploads that answered 200, a listing has exactly N
\* entries, one per upload, each with the byte length of that upload's body.
C1_ListingCountsUploads ==
  \A l \in Listings :
    afterUploads(l) =>
      /\ Len(ls[l].resp[1].body.files) = Cardinality(ls[l].seen)
      /\ \A r \in ls[l].seen :
           \E i \in entryOf(l, r) :
             ls[l].resp[1].body.files[i].size = up[r].total * ChunkKiB

\* C1 amended: the same, for uploads whose generated names are pairwise
\* distinct.
C1_ListingCountsDistinctNames ==
  \A l \in Listings :
    (/\ afterUploads(l)
     /\ \A r, q \in ls[l].seen : up[r].filename = up[q].filename => r = q)
    =>
      /\ Len(ls[l].resp[1].body.files) = Cardinality(ls[l].seen)
      /\ \A r \in ls[l].seen :
           /\ Cardinality(entryOf(l, r)) = 1
           /\ \A i \in entryOf(l, r) :
                ls[l].resp[1].body.files[i].size = up[r].total * ChunkKiB

C1_Witness ==
  \E l \in Listings :
    /\ afterUploads(l)
    /\ Cardinality(ls[l].seen) = 2
    /\ \A r, q \in ls[l].seen : up[r].filename = up[q].filename => r = q
    /\ \E r, q \in ls[l].seen : up[r].total /= up[q].total

\* C2: two uploads answered 200 with the same original name and different
\* timestamps have distinct savedAs names, and the file of an upload answered
\* 200 stays in the directory with that upload's content as long as no other
\* upload generated the same name.
C2_DistinctNamesRetained ==
  /\ \A r, q \in Uploads :
       (/\ answered200(r) /\ answered200(q)
        /\ up[r].originalname = up[q].originalname
        /\ up[r].ts /= up[q].ts)
       => up[r].info[1].savedAs /= up[q].info[1].savedAs
  /\ \A r \in Uploads :
       (answered200(r) /\ sharers(up[r].filename) = {r})
       => /\ up[r].info[1].savedAs \in DOMAIN dir
          /\ inodes[dir[up[r].info[1].savedAs]].data
               = Content(r, up[r].total)

C2_Witness ==
  /\ \E r, q \in Uploads :
       /\ answered200(r) /\ answered200(q)
       /\ up[r].originalname = up[q].originalname
       /\ up[r].ts /= up[q].ts
       /\ {up[r].filename, up[q].filename} \subseteq DOMAIN dir
  /\ \E l \in Listings : ls[l].st = "done"
  /\ health /= <<>>

\* C3: every response with a 4xx or 5xx status carries success false, an
\* error code and a details string.
C3_FailureEnvelope ==
  \A body \in failureBodies :
    /\ "success" \in DOMAIN body
    /\ body.success = FALSE
    /\ "error" \in DOMAIN body
    /\ "details" \in DOMAIN body

\* C4: a key or certificate that could not be read leaves the process exited
\* with code 1 and no socket bound; a bound socket, and every request served,
\* has a listener built by https.createServer from a key and a certificate
\* that were both read.
C4_TlsOrExit ==
  /\ (keyRead = "failed" \/ certRead = "failed")
       => (proc = "exited" /\ exitCode = 1 /\ listenPort = 0 /\ ~serverTls)
  /\ (listenPort /= 0 \/ proc \in {"binding", "serving"})
       => (keyRead = "ok" /\ certRead = "ok" /\ serverTls)
  /\ (started /= {} \/ health /= <<>> \/ \E l \in Listings : ls[l].st /= "idle")
       => (keyRead = "ok" /\ certRead = "ok" /\ serverTls
           /\ listenPort = PORT)

C4_Witness ==
  /\ keyRead = "ok"
  /\ certRead = "failed"
  /\ proc = "exited"
  /\ exitCode = 1

\* C5: a 413 response names the configured limit, 10000 MB, in its details.
C5_LimitInMessage ==
  \A r \in Uploads :
    (up[r].resp /= <<>> /\ up[r].resp[1].status = 413)
    => up[r].resp[1].body.details
         = <<"File size exceeds the limit of ",
             ToString(fileSize \div 1024), "MB">>

\* the status the outcome of upload r calls for
statusFor(r) ==
  IF up[r].err /= <<>>
  THEN IF up[r].err[1].name = "MulterError"
          /\ up[r].err[1].code = "LIMIT_FILE_SIZE"
       THEN 413 ELSE 400
  ELSE IF up[r].kind = "none" THEN 400
  ELSE IF up[r].threw THEN 500
  ELSE 200

\* C6: an upload request has no response while it is handled and exactly one
\* once it is over; the status is 413 for a file-size violation, 400 for any
\* other parser error and for a request without a file, 500 for an exception
\* while the record is built, and otherwise 200 with success true and the
\* file record; a body over the limit is never answered 200; and the
\* process is still serving whatever the outcome.
C6_OneResponsePerUpload ==
  \A r \in Uploads :
    /\ Len(up[r].resp) = (IF up[r].st = "done" THEN 1 ELSE 0)
    /\ up[r].st /= "idle" => (proc = "serving" /\ exitCode = -1)
    /\ up[r].st = "done" =>
         /\ up[r].resp[1].status = statusFor(r)
         /\ up[r].resp[1].body.success = (statusFor(r) = 200)
         /\ statusFor(r) = 200 =>
              /\ up[r].resp[1].body.file = up[r].info[1]
              /\ up[r].info[1].savedAs = up[r].filename
              /\ up[r].info[1].size = up[r].total * ChunkKiB
    /\ (up[r].st = "done" /\ overLimit(up[r].total * ChunkKiB))
         => up[r].resp[1].status \in {413, 400}
    /\ (up[r].st = "done" /\ up[r].resp[1].status = 413)
         => overLimit(up[r].total * ChunkKiB)

C6_Witness ==
  \E r, q \in Uploads :
    /\ up[r].st = "done" /\ up[r].resp[1].status = 413
    /\ up[q].st = "done" /\ up[q].resp[1].status = 500
    /\ proc = "serving"

\* C7 as stated: when two uploads that answered 200 generated the same name,
\* the file holds exactly the body of the one whose writes completed last.
logPos(e) == CHOOSE i \in 1..Len(wlog) : wlog[i] = e

\* of two uploads, the one whose writes completed last
lastWriter(r, q) ==
  IF logPos(<<"wdone", r>>) > logPos(<<"wdone", q>>) THEN r ELSE q

collided(r, q) ==
  /\ r /= q
  /\ answered200(r) /\ answered200(q)
  /\ up[r].filename = up[q].filename
  /\ sharers(up[r].filename) = {r, q}

C7_MixtureWitness ==
  \E r, q \in Uploads :
    /\ collided(r, q)
    /\ \E i, j \in 1..Len(inodes[dir[up[r].filename]].data) :
         /\ inodes[dir[up[r].filename]].data[i] = <<r, i>>
         /\ inodes[dir[up[r].filename]].data[j] = <<q, j>>

\* C8: an upload whose preview read failed is answered 200 with success true,
\* the record built before the read, and nothing else.
C8_PreviewFailureSwallowed ==
  \A r \in Uploads :
    (up[r].st = "done" /\ up[r].preview = "failed") =>
      /\ \/ StartsWith(up[r].mimetype, <<"t", "e", "x", "t", "/">>)
         \/ \E ext \in { <<".", "j", "s", "o", "n">>, <<".", "j", "s">>,
                         <<".", "h", "t", "m", "l">>, <<".", "c", "s", "s">> } :
              EndsWith(up[r].originalname, ext)
      /\ up[r].resp = <<[status |-> 200,
                         body |-> [success |-> TRUE,
                                   message |-> "File uploaded successfully",
                                   file |-> up[r].info[1]]]>>
      /\ up[r].info[1].savedAs = up[r].filename
      /\ up[r].info[1].size = up[r].total * ChunkKiB

C8_Witness ==
  \E r \in Uploads :
    /\ up[r].st = "done"
    /\ up[r].preview = "failed"
    /\ up[r].resp[1].status = 200
    /\ up[r].filename \in DOMAIN dir

\* C9: the files of a successful listing are the enumerated names, in the
\* enumeration's order, whatever the order in which the stats settled.
C9_EnumerationOrder ==
  \A l \in Listings :
    listed200(l) =>
      /\ Len(ls[l].resp[1].body.files) = Len(ls[l].names)
      /\ \A i \in 1..Len(ls[l].names) :
           ls[l].resp[1].body.files[i].name = ls[l].names[i]

C9_Witness ==
  \E l \in Listings :
    /\ listed200(l)
    /\ Len(ls[l].names) = 2
    /\ ls[l].order = <<2, 1>>

\* C10 as stated, read once every upload that arrived has answered 200:
\* every entry of a successful listing is the file of an upload that
\* answered 200, with that upload's file.size.
C10_OnlyCompletedUploads ==
  \A l \in Listings :
    (listed200(l) /\ \A r \in started : answered200(r)) =>
      \A i \in 1..Len(ls[l].resp[1].body.files) :
        \E r \in Uploads :
          /\ answered200(r)
          /\ up[r].info[1].savedAs = ls[l].resp[1].body.files[i].name
          /\ up[r].info[1].size = ls[l].resp[1].body.files[i].size

\* C10 amended: every entry of a successful listing is a file some upload
\* created, complete or not, with a size no larger than the longest body
\* stored under that name; an upload that had answered 200 when the listing
\* was asked for, and whose name no other upload generated, is listed with
\* its file.size.
C10_ListsFilesAsTheyAre ==
  \A l \in Listings :
    listed200(l) =>
      /\ \A i \in 1..Len(ls[l].resp[1].body.files) :
           LET e == ls[l].resp[1].body.files[i]
           IN  /\ sharers(e.name) /= {}
               /\ \E r \in sharers(e.name) : e.size <= up[r].total * ChunkKiB
      /\ \A r \in ls[l].seen :
           sharers(up[r].filename) = {r} =>
             /\ entryOf(l, r) /= {}
             /\ \A i \in entryOf(l, r) :
                  ls[l].resp[1].body.files[i].size = up[r].info[1].size

C10_Witness ==
  \E l \in Listings, r \in Uploads :
    /\ listed200(l)
    /\ answered200(r)
    /\ sharers(up[r].filename) = {r}
    /\ \E i \in entryOf(l, r) :
         ls[l].resp[1].body.files[i].size < up[r].info[1].size

====
